---- MODULE Spec2Model ----
(***************************************************************************)
(* Draft lifecycle of the ClawdBot pipeline: the webhook signature         *)
(* verifier, the constitutional critic and generation loop of the writer,  *)
(* the file-per-draft store and the Slack action dispatcher.               *)
(*                                                                         *)
(* Strings the code inspects character by character (header values, the    *)
(* critic's answer) are sequences of one-character strings.  The text of a *)
(* post is only stored, split into words and copied, and is a sequence of  *)
(* words.                                                                  *)
(***************************************************************************)
EXTENDS Integers, Sequences, FiniteSets, TLC

VARIABLES
    secret,     \* SLACK_SIGNING_SECRET, fixed at start-up
    vreq,       \* verifier: the request under verification and the time
    vres,       \* verifier: outcome of verify_slack_signature
    cin,        \* critic: what the critic call does
    cout,       \* critic: what critic_pass returns
    pending,    \* DRAFTS_PATH: file name -> content
    approved,   \* APPROVED_PATH: file name -> content
    clock,      \* wall clock, as far as file names and stamps see it
    wpc,        \* generate_post: "idle", "loop", "returned"
    wloc,       \* generate_post: its local variables
    wlast,      \* generate_post: what the latest loop iteration did
    pubLog,     \* the drafts post_to_all_platforms was called with, in order
    nEvents,    \* number of requests the receiver has handled
    last,       \* what the latest request to the receiver led to
    call,       \* store: the latest call of a store function and its outcome
    th          \* receiver threads: the handler each one runs and where it is

storeVars == <<pending, approved>>

writerVars == <<clock, wpc, wloc, wlast>>

verifierVars == <<vreq, vres>>

criticVars == <<cin, cout>>

pureVars == <<vreq, vres, cin, cout, call, th>>

dispatchVars == <<pubLog, nEvents, last>>

vars ==
    <<secret, vreq, vres, cin, cout, pending, approved, clock, wpc, wloc, wlast,
      pubLog, nEvents, last, call, th>>

(***************************************************************************)
(* Characters and strings                                                  *)
(***************************************************************************)

\* One character outside ASCII (a latin-1 byte of a header value).
NonAscii == "U+00E9"

IsAscii(c) == c # NonAscii

Digits == {"0", "1", "2", "3", "4", "5", "6", "7", "8", "9"}

DigitVal(c) ==
    CASE c = "0" -> 0 [] c = "1" -> 1 [] c = "2" -> 2 [] c = "3" -> 3
      [] c = "4" -> 4 [] c = "5" -> 5 [] c = "6" -> 6 [] c = "7" -> 7
      [] c = "8" -> 8 [] c = "9" -> 9

Whitespace == {" ", "\n", "\t"}

RECURSIVE LStrip(_)
LStrip(s) ==
    IF s # <<>> /\ Head(s) \in Whitespace THEN LStrip(Tail(s)) ELSE s

RECURSIVE RStrip(_)
RStrip(s) ==
    IF s # <<>> /\ s[Len(s)] \in Whitespace
    THEN RStrip(SubSeq(s, 1, Len(s) - 1))
    ELSE s

\* str.strip()
Strip(s) == RStrip(LStrip(s))

\* str.startswith(p)
StartsWith(s, p) == Len(s) >= Len(p) /\ SubSeq(s, 1, Len(p)) = p

\* The body of an int literal after strip(): an optional sign, then digits.
Unsigned(s) ==
    LET t == Strip(s)
    IN  IF t # <<>> /\ Head(t) \in {"+", "-"} THEN Tail(t) ELSE t

\* int(s) does not raise ValueError
IntParses(s) ==
    LET u == Unsigned(s)
    IN  u # <<>> /\ \A i \in 1..Len(u) : u[i] \in Digits

RECURSIVE DigitsValue(_)
DigitsValue(u) ==
    IF u = <<>> THEN 0
    ELSE 10 * DigitsValue(SubSeq(u, 1, Len(u) - 1)) + DigitVal(u[Len(u)])

\* int(s), for s with IntParses(s)
IntValue(s) ==
    LET t == Strip(s)
        v == DigitsValue(Unsigned(s))
    IN  IF Head(t) = "-" THEN 0 - v ELSE v

Abs(x) == IF x < 0 THEN 0 - x ELSE x

(***************************************************************************)
(* Webhook signature verifier                                              *)
(*                                                                         *)
(* A header is absent (<<>>) or present (<<value>>).  The timestamp value  *)
(* is a string.  A signature value is a string followed by at most one     *)
(* 64-digit hex digest: [pre |-> chars, dig |-> <<>> or <<[key, msg]>>],   *)
(* the digest standing for hexdigest(HMAC-SHA256(key, msg)), taken to be   *)
(* collision free.  The time of verification is in half seconds            *)
(* (time.time() is a float).                                               *)
(***************************************************************************)

\* The replay window of verify_slack_signature, in seconds.
ReplayWindow == 300

\* headers.get(name, "")
HeaderGet(h, default) == IF h = <<>> THEN default ELSE h[1]

EmptySig == [pre |-> <<>>, dig |-> <<>>]

\* sig_basestring = f"v0:{timestamp}:{body}"
SigBasestring(timestamp, body) == <<"v", "0", ":">> \o timestamp \o <<":">> \o body

\* The expected signature without the request body in the base string.
ExpectedSigNoBody(key, timestamp, body) ==
    [pre |-> <<"v", "0", "=">>,
     dig |-> <<[key |-> key, msg |-> SigBasestring(timestamp, <<>>)]>>]

\* "v0=" + hmac.new(secret, sig_basestring, sha256).hexdigest()
ExpectedSig(key, timestamp, body) ==
    [pre |-> <<"v", "0", "=">>,
     dig |-> <<[key |-> key, msg |-> SigBasestring(timestamp, body)]>>]

SigIsAscii(sig) == \A i \in 1..Len(sig.pre) : IsAscii(sig.pre[i])

\* abs(time.time() - int(timestamp)) > 300, with now2 in half seconds
TooOldStrict(now2, t) == Abs(now2 - 2 * t) >= 2 * ReplayWindow

TooOld(now2, t) == Abs(now2 - 2 * t) > 2 * ReplayWindow

\* A comparison of the "v0=" prefixes only.
CompareDigestPrefix(a, b) ==
    IF ~SigIsAscii(a) \/ ~SigIsAscii(b) THEN "TypeError"
    ELSE IF a.pre = b.pre THEN "True" ELSE "False"

\* hmac.compare_digest(a, b) on str: TypeError unless both are ASCII
CompareDigest(a, b) ==
    IF ~SigIsAscii(a) \/ ~SigIsAscii(b) THEN "TypeError"
    ELSE IF a = b THEN "True" ELSE "False"

\* verify_slack_signature(req): "True", "False", or the exception it raises
VerifySlackSignature(key, req, now2) ==
    LET timestamp == HeaderGet(req.ts, <<>>)
        signature == HeaderGet(req.sig, EmptySig)
    IN  IF key = <<>> THEN "True"
        ELSE IF timestamp = <<>> \/ signature = EmptySig THEN "False"
        ELSE IF ~IntParses(timestamp) THEN "False"
        ELSE IF TooOld(now2, IntValue(timestamp)) THEN "False"
        ELSE CompareDigest(ExpectedSig(key, timestamp, req.body), signature)

NoSecret == <<>>

SigningSecret == <<"k">>

OtherSecret == <<"j">>

NoRequest == [ts |-> <<>>, sig |-> <<>>, body |-> <<>>, now2 |-> 0]

(***************************************************************************)
(* Draft store: two directories of files.  A file name is a sequence of    *)
(* tokens (its parts), a file content is <<>> when the file does not parse *)
(* as JSON (empty or truncated) and <<draft>> when it does.  An optional   *)
(* key of the JSON object is <<>> (absent) or <<value>>.                    *)
(***************************************************************************)

Put(dir, name, content) ==
    [n \in DOMAIN dir \cup {name} |-> IF n = name THEN content ELSE dir[n]]

Remove(dir, name) == [n \in DOMAIN dir \ {name} |-> dir[n]]

EmptyDir == [n \in {} |-> <<>>]

StoreInit ==
    /\ pending = EmptyDir
    /\ approved = EmptyDir

\* No payload: of a request that was refused before its payload was read.
NoPayload ==
    [ptype |-> "none", action_id |-> "", value |-> <<>>, user |-> "", new_text |-> <<>>]

\* No request handled yet.  payload is the payload the dispatcher parsed,
\* pub what the posting block ran into when the handler reached it, and
\* clean tells of an edit submission whether every step it reached went
\* through (no file-system fault, and post_to_all_platforms imported and
\* given the approved file), of an open-editor request whether the read of
\* load_draft met no fault.
NoLast ==
    [kind |-> "none", verify |-> "none", status |-> 0, text |-> "", ret |-> <<>>,
     invoked |-> <<>>, notice |-> "", prefill |-> <<>>,
     payload |-> NoPayload, pub |-> "none", clean |-> TRUE]

DispatchInit ==
    /\ pubLog = <<>>
    /\ nEvents = 0
    /\ last = NoLast

\* The first segment of a reference instead of the last.
BasenameFirst(ref) == IF ref = <<>> THEN <<>> ELSE ref[1]

\* Path(draft_filename).name: the last segment of a reference.  A reference
\* is a sequence of path segments, a segment a file name; the empty
\* reference is the empty string.
Basename(ref) == IF ref = <<>> THEN <<>> ELSE ref[Len(ref)]

DotDot == <<"..">>

\* DRAFTS_PATH / "" is the directory itself, DRAFTS_PATH / ".." its parent:
\* both exist, and opening either raises IsADirectoryError.
IsDirectory(name) == name \in {<<>>, DotDot}

\* path.exists()
Exists(dir, name) == IsDirectory(name) \/ name \in DOMAIN dir

\* What the file system does to one operation of the store: nothing
\* unusual, or one of its steps raises OSError.  A dump that fails leaves
\* the file opened for writing truncated.
Faults == {"none", "read_fails", "open_fails", "dump_fails", "unlink_fails"}

\* with open(path) as f: json.load(f) raises
LoadRaises(dir, name, f) ==
    IsDirectory(name) \/ f = "read_fails" \/ dir[name] = <<>>

\* datetime.utcnow().isoformat()
Stamp(now) == <<now>>

\* A store operation returns the two directories and its return value.
StoreResult(p, a, ret) == [pending |-> p, approved |-> a, ret |-> ret]

\* approve_draft without the status update.
StampApprovedNoStatus(draft, approver, now) ==
    [draft EXCEPT !.approved_at = Stamp(now), !.approved_by = <<approver>>]

\* approve_draft, lines 142-144
StampApproved(draft, approver, now) ==
    [draft EXCEPT !.status = "approved",
                  !.approved_at = Stamp(now),
                  !.approved_by = <<approver>>]

\* approve_draft leaving the source file in place.
ApproveDraftCopies(p, a, ref, approver, now, f) ==
    LET safe_name == Basename(ref)
    IN  IF ~Exists(p, safe_name) \/ LoadRaises(p, safe_name, f) \/ f # "none"
        THEN StoreResult(p, a, <<>>)
        ELSE StoreResult(p, Put(a, safe_name,
                                <<StampApproved(p[safe_name][1], approver, now)>>),
                         <<safe_name>>)

\* approve_draft removing the source before it writes the destination.
ApproveDraftRemovesFirst(p, a, ref, approver, now, f) ==
    LET safe_name == Basename(ref)
    IN  IF ~Exists(p, safe_name) \/ LoadRaises(p, safe_name, f) \/ f = "unlink_fails"
        THEN StoreResult(p, a, <<>>)
        ELSE IF f = "open_fails" THEN StoreResult(Remove(p, safe_name), a, <<>>)
        ELSE IF f = "dump_fails"
        THEN StoreResult(Remove(p, safe_name), Put(a, safe_name, <<>>), <<>>)
        ELSE StoreResult(Remove(p, safe_name),
                         Put(a, safe_name,
                             <<StampApproved(p[safe_name][1], approver, now)>>),
                         <<safe_name>>)

\* approve_draft(draft_filename, approver): ret is <<>> (None) or
\* <<name>> (the destination APPROVED_PATH / name)
ApproveDraft(p, a, ref, approver, now, f) ==
    LET safe_name == Basename(ref)
    IN  IF ~Exists(p, safe_name) THEN StoreResult(p, a, <<>>)
        ELSE IF LoadRaises(p, safe_name, f) THEN StoreResult(p, a, <<>>)
        ELSE IF f = "open_fails" THEN StoreResult(p, a, <<>>)
        ELSE IF f = "dump_fails" THEN StoreResult(p, Put(a, safe_name, <<>>), <<>>)
        ELSE LET draft == StampApproved(p[safe_name][1], approver, now)
                 written == Put(a, safe_name, <<draft>>)
             IN  IF f = "unlink_fails" THEN StoreResult(p, written, <<>>)
                 ELSE StoreResult(Remove(p, safe_name), written, <<safe_name>>)

\* reject_draft's stamps without the reason.
StampRejectedNoReason(draft, rejector, reason, now) ==
    [draft EXCEPT !.status = "rejected",
                  !.rejected_at = Stamp(now),
                  !.rejected_by = <<rejector>>]

\* reject_draft's stamps, the critic's verdict withdrawn as well.
StampRejectedResetsCritic(draft, rejector, reason, now) ==
    [draft EXCEPT !.status = "rejected",
                  !.rejected_at = Stamp(now),
                  !.rejected_by = <<rejector>>,
                  !.rejection_reason = <<reason>>,
                  !.critic_result = "UNSAFE"]

\* reject_draft, lines 173-176
StampRejected(draft, rejector, reason, now) ==
    [draft EXCEPT !.status = "rejected",
                  !.rejected_at = Stamp(now),
                  !.rejected_by = <<rejector>>,
                  !.rejection_reason = <<reason>>]

\* f"REJECTED_{safe_name}"
RejectedName(safe_name) == <<"REJECTED_">> \o safe_name

\* reject_draft refusing a file that carries the reject marker.
RejectDraftRefusesMarked(p, a, ref, rejector, reason, now, f) ==
    LET safe_name == Basename(ref)
        rejected_name == RejectedName(safe_name)
    IN  IF ~Exists(p, safe_name) \/ LoadRaises(p, safe_name, f) \/ f # "none"
           \/ safe_name[1] = "REJECTED_"
        THEN StoreResult(p, a, FALSE)
        ELSE StoreResult(Remove(Put(p, rejected_name,
                                    <<StampRejected(p[safe_name][1], rejector, reason, now)>>),
                                safe_name),
                         a, TRUE)

\* reject_draft(draft_filename, rejector, reason): ret is TRUE or FALSE
RejectDraft(p, a, ref, rejector, reason, now, f) ==
    LET safe_name == Basename(ref)
        rejected_name == RejectedName(safe_name)
    IN  IF ~Exists(p, safe_name) THEN StoreResult(p, a, FALSE)
        ELSE IF LoadRaises(p, safe_name, f) THEN StoreResult(p, a, FALSE)
        ELSE IF f = "open_fails" THEN StoreResult(p, a, FALSE)
        ELSE IF f = "dump_fails" THEN StoreResult(Put(p, rejected_name, <<>>), a, FALSE)
        ELSE LET draft == StampRejected(p[safe_name][1], rejector, reason, now)
                 written == Put(p, rejected_name, <<draft>>)
             IN  IF f = "unlink_fails" THEN StoreResult(written, a, FALSE)
                 ELSE StoreResult(Remove(written, safe_name), a, TRUE)

\* edit_draft's update with original_text set on every edit.
StampEditedOverwrites(draft, new_text, editor, now) ==
    [draft EXCEPT !.original_text = <<draft.text>>,
                  !.text = new_text,
                  !.edited_at = Stamp(now),
                  !.edited_by = <<editor>>,
                  !.word_count = Len(new_text)]

\* edit_draft, lines 208-214
StampEdited(draft, new_text, editor, now) ==
    [draft EXCEPT !.original_text = IF @ = <<>> THEN <<draft.text>> ELSE @,
                  !.text = new_text,
                  !.edited_at = Stamp(now),
                  !.edited_by = <<editor>>,
                  !.word_count = Len(new_text)]

\* edit_draft(draft_filename, new_text, editor): ret is TRUE or FALSE
EditDraft(p, a, ref, new_text, editor, now, f) ==
    LET safe_name == Basename(ref)
    IN  IF ~Exists(p, safe_name) THEN StoreResult(p, a, FALSE)
        ELSE IF LoadRaises(p, safe_name, f) THEN StoreResult(p, a, FALSE)
        ELSE IF f = "open_fails" THEN StoreResult(p, a, FALSE)
        ELSE IF f = "dump_fails" THEN StoreResult(Put(p, safe_name, <<>>), a, FALSE)
        ELSE StoreResult(
                 Put(p, safe_name, <<StampEdited(p[safe_name][1], new_text, editor, now)>>),
                 a, TRUE)

\* No store function called yet.  ok: the call did not fail (a path, True or
\* a draft was returned); ret: the path approve_draft or the draft load_draft
\* returned; edits: how many calls of edit_draft have returned True.
NoCall ==
    [op |-> "none", ref |-> <<>>, actor |-> "", reason |-> "", new_text |-> <<>>,
     fault |-> "none", ok |-> FALSE, ret |-> <<>>, edits |-> 0]

\* app.run() serves with threaded=True (Flask's default): requests that
\* arrive together are handled by threads of their own.  Two are followed.
Threads == {1, 2}

\* A thread with no request: op is the button of the request it handles,
\* pc the statement of approve_draft / reject_draft / slack_actions it is
\* at, draft the local variable draft, ok what the store function returned.
IdleThread == [op |-> "none", pc |-> "idle", draft |-> <<>>, ok |-> FALSE]

NoThreads == [t \in Threads |-> IdleThread]

\* load_draft(draft_filename): <<>> (None) or <<draft>>
LoadDraft(p, ref, f) ==
    LET safe_name == Basename(ref)
    IN  IF ~Exists(p, safe_name) THEN <<>>
        ELSE IF LoadRaises(p, safe_name, f) THEN <<>>
        ELSE p[safe_name]

(***************************************************************************)
(* Writer: constitutional critic and generation loop                        *)
(***************************************************************************)

MAX_RETRIES == 3

\* str.upper() on the letters the verdict words are made of
UpperChar(c) ==
    CASE c = "s" -> "S" [] c = "a" -> "A" [] c = "f" -> "F" [] c = "e" -> "E"
      [] c = "u" -> "U" [] c = "n" -> "N" [] OTHER -> c

Upper(s) == [i \in 1..Len(s) |-> UpperChar(s[i])]

SAFE == <<"S", "A", "F", "E">>

UNSAFE == <<"U", "N", "S", "A", "F", "E">>

HasColon(s) == \E i \in 1..Len(s) : s[i] = ":"

FirstColon(s) == CHOOSE i \in 1..Len(s) : s[i] = ":" /\ \A j \in 1..(i - 1) : s[j] # ":"

\* result.split(":", 1)[1]
AfterFirstColon(s) == SubSeq(s, FirstColon(s) + 1, Len(s))

\* result[:100]
AmbiguousPreview == 100

Take(s, n) == SubSeq(s, 1, IF Len(s) < n THEN Len(s) ELSE n)

\* A reason: a fixed wording followed by text taken from the response.
Reason(wording, text) == [wording |-> wording, text |-> text]

\* if result.upper().startswith("SAFE")
IsSafeVerdictAnything(result) == ~StartsWith(Upper(result), UNSAFE)

\* The accept test taking the verdict word alone, in capitals.
IsSafeVerdictExact(result) == result = SAFE

IsSafeVerdict(result) == StartsWith(Upper(result), SAFE)

\* What a provider call does: it raises (text is the message of the
\* exception) or it answers text.
Raises(msg) == [raise |-> TRUE, text |-> msg]

Answers(text) == [raise |-> FALSE, text |-> text]

\* critic_pass(draft_text), given what the critic call does.  _call_gemini
\* strips the answer.
CriticPass(outcome) ==
    IF outcome.raise
    THEN [is_safe |-> FALSE, reason |-> Reason("Critic error: ", outcome.text)]
    ELSE LET result == Strip(outcome.text)
         IN  IF IsSafeVerdict(result)
             THEN [is_safe |-> TRUE,
                   reason |-> Reason("Passed all constitutional checks", <<>>)]
             ELSE IF StartsWith(Upper(result), UNSAFE)
             THEN [is_safe |-> FALSE,
                   reason |-> Reason("", IF HasColon(result)
                                         THEN Strip(AfterFirstColon(result))
                                         ELSE result)]
             ELSE [is_safe |-> FALSE,
                   reason |-> Reason("Critic gave ambiguous response: ",
                                     Take(result, AmbiguousPreview))]

\* The texts the generation provider answers: sequences of words.
GenTexts == {<<"w1", "w2">>, <<"w3">>}

GenOutcomes == {Answers(t) : t \in GenTexts} \cup {Raises(<<>>)}

\* The answers of the critic provider the generation loop is run against:
\* the two verdicts asked for, an answer that only begins with the
\* letters of SAFE, and another answer.
LoopCriticAnswers ==
    {SAFE, <<"U", "N", "S", "A", "F", "E", ":", " ", "x">>,
     <<"S", "a", "f", "e", " ", "i", "f">>, <<"I", "'", "m">>}

\* The answers critic_pass is applied to on its own: a verdict word or
\* another word, in some letter case, with text before and after it.
CriticAnswers ==
    {lead \o word \o trail :
        lead \in {<<>>, <<" ">>, <<"\n", " ">>},
        word \in {SAFE, <<"s", "a", "f", "e">>, <<"S", "a", "f", "e">>, UNSAFE,
                  <<"u", "n", "s", "a", "f", "e">>, <<"I", "'", "m">>, <<"N", "O">>,
                  <<>>},
        trail \in {<<>>, <<" ", " ", "\n">>, <<":">>, <<":", " ", "x">>, <<"R">>,
                   <<":", "y", ":", "z", " ">>}}

LoopCriticOutcomes == {Answers(a) : a \in LoopCriticAnswers} \cup {Raises(<<"t">>)}

CriticOutcomes ==
    {Answers(a) : a \in CriticAnswers} \cup {Raises(<<"t">>), Raises(<<>>)}

\* The news snapshot: "articles" is absent, or a list of the articles' urls
\* (a url is <<>> when the article has none).
NewsSnapshots ==
    [articles : {<<>>, << <<>> >>, << << <<"u">> >> >>, << << <<>> >> >>},
     scraped_at : {<<"s">>}]

CoreNewsSnapshots == {n \in NewsSnapshots : n.articles # << << <<>> >> >>}

\* What the file system does to the write of the draft file.
FsOutcomes == {"ok", "open_fails", "dump_fails"}

\* hashlib.md5(draft.encode()).hexdigest()[:8]
DraftId(text) == IF text = <<"w3">> THEN "b2" ELSE "a1"

\* f"{timestamp.replace(':', '-')}_{draft_id}.json"
DraftFilename(timestamp, draft_id) == <<ToString(timestamp), draft_id, ".json">>

\* news.get("articles", [{}])[0].get("url", ""): does [0] raise IndexError
NewsSourceRaises(news) == news.articles # <<>> /\ news.articles[1] = <<>>

NewsSource(news) ==
    IF news.articles = <<>> THEN <<>> ELSE news.articles[1][1]

\* draft_data of generate_post
DraftData(draft, timestamp, news, attempt, nExamples) ==
    [text |-> draft,
     created_at |-> timestamp,
     draft_id |-> DraftId(draft),
     word_count |-> Len(draft),
     news_source |-> NewsSource(news),
     news_scraped_at |-> news.scraped_at,
     model |-> "gemini",
     attempt |-> attempt,
     status |-> "pending_approval",
     critic_result |-> "SAFE",
     rag_examples_used |-> nExamples,
     original_text |-> <<>>,
     edited_at |-> <<>>,
     edited_by |-> <<>>,
     approved_at |-> <<>>,
     approved_by |-> <<>>,
     rejected_at |-> <<>>,
     rejected_by |-> <<>>,
     rejection_reason |-> <<>>]

NoOutcome == Raises(<<>>)

NoVerdict == [is_safe |-> FALSE, reason |-> Reason("", <<>>)]

IdleLoc ==
    [attempt |-> 0, prompt |-> <<>>, news |-> [articles |-> <<>>, scraped_at |-> <<>>],
     examples |-> 0, result |-> <<>>, genCalls |-> 0, criticCalls |-> 0,
     before |-> EmptyDir]

\* No iteration run yet.  fs is what the file system did to the write of
\* the draft file, "ok" when the iteration did not come to open it.
NoAttempt ==
    [attempt |-> 0, gen |-> NoOutcome, criticCalled |-> FALSE, critic |-> NoOutcome,
     verdict |-> NoVerdict, wrote |-> <<>>, fs |-> "ok"]

WriterInit ==
    /\ clock = 0
    /\ wpc = "idle"
    /\ wloc = IdleLoc
    /\ wlast = NoAttempt

\* Invocations of generate_post are started while fewer than MaxWrites
\* draft files were opened for writing.
MaxWrites == 1

\* generate_post, lines 221-226: load the inputs, build the prompt.
StartGenerate(news, nExamples) ==
    /\ wpc = "idle"
    /\ clock < MaxWrites
    /\ wpc' = "loop"
    /\ wloc' = [IdleLoc EXCEPT !.attempt = 1, !.news = news, !.examples = nExamples,
                              !.before = pending]
    /\ wlast' = NoAttempt
    /\ UNCHANGED <<clock, storeVars, dispatchVars>>

\* if is_safe:
AcceptsAlways(verdict) == TRUE

Accepts(verdict) == verdict.is_safe

\* for attempt in range(1, MAX_RETRIES + 1): is there a next iteration
HasNextExtra(attempt) == attempt < MAX_RETRIES + 1

\* The loop running twice as long.
HasNextDoubled(attempt) == attempt < 2 * MAX_RETRIES

HasNext(attempt) == attempt < MAX_RETRIES

\* The feedback replacing what the prompt had gathered.
FeedbackReplaces(prompt, reason) == <<reason>>

\* prompt += f"\n\n[PREVIOUS DRAFT WAS REJECTED: {reason}. Please fix this
\* issue.]": the prompt is kept as the sequence of the reasons appended to
\* the initial instruction.
Feedback(prompt, reason) == Append(prompt, reason)

\* One iteration of the loop of generate_post (and, after the last one, the
\* return None that follows the loop).  g and c are what the generation and
\* the critic call do, f what the file system does.
Attempt(g, c, f) ==
    /\ wpc = "loop"
    /\ LET k == wloc.attempt
           critic == IF g.raise THEN NoOutcome ELSE c
           verdict == IF g.raise THEN NoVerdict ELSE CriticPass(c)
           saving == ~g.raise /\ Accepts(verdict)
           timestamp == clock + 1
           name == DraftFilename(timestamp, DraftId(g.text))
           opened == saving /\ ~NewsSourceRaises(wloc.news) /\ f # "open_fails"
           saved == opened /\ f = "ok"
           counted == [wloc EXCEPT !.genCalls = @ + 1,
                                   !.criticCalls = IF g.raise THEN @ ELSE @ + 1]
           fedback == IF ~g.raise /\ ~saving
                      THEN [counted EXCEPT !.prompt = Feedback(@, verdict.reason)]
                      ELSE counted
       IN  /\ clock' = IF saving THEN timestamp ELSE clock
           /\ pending' =
                IF saved
                THEN Put(pending, name,
                         <<DraftData(g.text, timestamp, wloc.news, k, wloc.examples)>>)
                ELSE IF opened THEN Put(pending, name, <<>>)
                ELSE pending
           /\ wlast' = [attempt |-> k, gen |-> g, criticCalled |-> ~g.raise,
                        critic |-> critic, verdict |-> verdict,
                        wrote |-> IF opened THEN <<name>> ELSE <<>>,
                        fs |-> IF saving /\ ~NewsSourceRaises(wloc.news) THEN f ELSE "ok"]
           /\ IF saved
              THEN /\ wpc' = "returned"
                   /\ wloc' = [fedback EXCEPT !.result = <<name>>]
              ELSE IF HasNext(k)
              THEN /\ wpc' = "loop"
                   /\ wloc' = [fedback EXCEPT !.attempt = k + 1]
              ELSE /\ wpc' = "returned"
                   /\ wloc' = fedback
    /\ UNCHANGED <<approved, dispatchVars>>

\* generate_post has returned: its locals are gone.
Finish ==
    /\ wpc = "returned"
    /\ wpc' = "idle"
    /\ wloc' = IdleLoc
    /\ wlast' = NoAttempt
    /\ UNCHANGED <<clock, storeVars, dispatchVars>>

WriterNext ==
    \/ \E news \in NewsSnapshots, nExamples \in {0, 2} : StartGenerate(news, nExamples)
    \/ \E g \in GenOutcomes, c \in LoopCriticOutcomes, f \in FsOutcomes : Attempt(g, c, f)
    \/ Finish

\* wloc.genCalls, wloc.criticCalls and wloc.before are not variables of the
\* code: they count the provider calls of the invocation and keep the store
\* it started from.

\* The variables of the specifications of the pure functions, at rest.
PureIdle ==
    /\ vreq = NoRequest
    /\ vres = "pending"
    /\ cin = NoOutcome
    /\ cout = <<>>
    /\ call = NoCall
    /\ th = NoThreads

\* The writer container on its own: empty collections, no receiver.
WriterAloneInit ==
    /\ secret = NoSecret
    /\ PureIdle
    /\ StoreInit
    /\ WriterInit
    /\ DispatchInit

SpecWriter == WriterAloneInit /\ [][WriterNext /\ UNCHANGED <<secret, pureVars>>]_vars

(***************************************************************************)
(* critic_pass on its own: every outcome of the critic call of a bounded   *)
(* set.                                                                    *)
(***************************************************************************)

CriticInit ==
    /\ secret = NoSecret
    /\ vreq = NoRequest
    /\ vres = "pending"
    /\ cin \in CriticOutcomes
    /\ cout = <<>>
    /\ call = NoCall
    /\ th = NoThreads
    /\ StoreInit
    /\ WriterInit
    /\ DispatchInit

Critic ==
    /\ cout = <<>>
    /\ cout' = <<CriticPass(cin)>>
    /\ UNCHANGED <<secret, verifierVars, cin, call, th, storeVars, writerVars, dispatchVars>>

CriticNext == Critic

SpecCritic == CriticInit /\ [][CriticNext]_vars

(***************************************************************************)
(* The verifier on its own: every request of a bounded set of header       *)
(* values, bodies and verification times.                                  *)
(***************************************************************************)

\* Timestamps as Slack sends them: decimal epoch seconds.
SlackTimestamps == {<<"4", "0", "0">>, <<"4", "0", "1">>}

TimestampValues ==
    SlackTimestamps \cup
    {<<>>, <<" ", "4", "0", "0">>, <<"+", "4", "0", "0">>, <<"-", "4", "0", "0">>,
     <<"4", "0", "0", ":", "a">>, <<"4", "0", "0", ".", "0">>, <<"x">>}

Bodies == {<<>>, <<"b">>, <<"a", ":", "b">>, <<"c">>}

\* The signature Slack sends for a body b it signs at timestamp t with key k.
SlackSigns(k, t, b) ==
    [pre |-> <<"v", "0", "=">>,
     dig |-> <<[key |-> k, msg |-> <<"v", "0", ":">> \o t \o <<":">> \o b]>>]

SignatureValues ==
    {EmptySig,
     [pre |-> <<"v", "0", "=">>, dig |-> <<>>],
     [pre |-> <<"v", "0", "=", NonAscii>>, dig |-> <<>>]}
    \cup {SlackSigns(k, t, b) : k \in {SigningSecret, OtherSecret},
                                 t \in SlackTimestamps, b \in Bodies}

Optional(S) == {<<>>} \cup {<<x>> : x \in S}

\* Verification times around 400 s, in half seconds.
VerifyTimes ==
    {2 * (400 + o) + h :
        o \in {0 - (ReplayWindow + 1), 0 - ReplayWindow, 0 - (ReplayWindow - 1), 0, 1,
               ReplayWindow - 1, ReplayWindow, ReplayWindow + 1},
        h \in {0, 1}}

Requests ==
    [ts : Optional(TimestampValues), sig : Optional(SignatureValues),
     body : Bodies, now2 : VerifyTimes]

VerifyInit ==
    /\ secret \in {NoSecret, SigningSecret}
    /\ vreq \in Requests
    /\ vres = "pending"
    /\ cin = NoOutcome
    /\ cout = <<>>
    /\ call = NoCall
    /\ th = NoThreads
    /\ StoreInit
    /\ WriterInit
    /\ DispatchInit

Verify ==
    /\ vres = "pending"
    /\ vres' = VerifySlackSignature(secret, vreq, vreq.now2)
    /\ UNCHANGED <<secret, vreq, criticVars, call, th, storeVars, writerVars, dispatchVars>>

VerifyNext == Verify

SpecVerify == VerifyInit /\ [][VerifyNext]_vars

(***************************************************************************)
(* Action dispatcher: POST /slack/actions.  One request is handled to      *)
(* completion before the next (app.run, one request at a time).  status is *)
(* the HTTP status of the answer, text its wording.                        *)
(***************************************************************************)

\* What a handler comes to: the answer, the store it leaves, the draft it
\* called post_to_all_platforms with (<<>> when it did not), the notice it
\* put on the Slack message, the text it opened the edit modal with.
Outcome(kind, status, text, p, a, ret, invoked, notice, prefill) ==
    [kind |-> kind, status |-> status, text |-> text, pending |-> p, approved |-> a,
     ret |-> ret, invoked |-> invoked, notice |-> notice, prefill |-> prefill]

\* What the posting block does: "posts", "reports_failure" and "raises" call
\* post_to_all_platforms, which returns results with a success, returns
\* results with none (or {"error": ...}), or raises; "import_error" and
\* "read_error" fail before the call.
PubOutcomes == {"posts", "reports_failure", "raises", "import_error", "read_error"}

\* Lines 372-376 and 503-507: the draft post_to_all_platforms is called
\* with, read back from the approved file.
PostedDraft(a, approved_path, pub) ==
    IF pub \in {"import_error", "read_error"} THEN <<>> ELSE a[approved_path[1]]

\* The approve branch undoing the approval when the draft was not posted.
HandleApproveRollsBack(p, a, ref, approver, now, f, pub) ==
    LET r == ApproveDraft(p, a, ref, approver, now, f)
    IN  IF r.ret # <<>>
        THEN Outcome("approve", 200, "Draft approved and posted!",
                     IF pub = "posts" THEN r.pending ELSE p,
                     IF pub = "posts" THEN r.approved ELSE a,
                     r.ret, PostedDraft(r.approved, r.ret, pub),
                     "Approved & posted", <<>>)
        ELSE Outcome("approve", 200, "Failed to approve draft.", r.pending, r.approved,
                     <<>>, <<>>, "", <<>>)

\* slack_actions, lines 367-390
HandleApprove(p, a, ref, approver, now, f, pub) ==
    LET r == ApproveDraft(p, a, ref, approver, now, f)
    IN  IF r.ret # <<>>
        THEN Outcome("approve", 200, "Draft approved and posted!", r.pending, r.approved,
                     r.ret, PostedDraft(r.approved, r.ret, pub),
                     "Approved & posted", <<>>)
        ELSE Outcome("approve", 200, "Failed to approve draft.", r.pending, r.approved,
                     <<>>, <<>>, "", <<>>)

\* slack_actions, lines 393-402
HandleReject(p, a, ref, approver, now, f) ==
    LET r == RejectDraft(p, a, ref, approver, "", now, f)
    IN  IF r.ret
        THEN Outcome("reject", 200, "Draft rejected.", r.pending, r.approved,
                     <<>>, <<>>, "Rejected", <<>>)
        ELSE Outcome("reject", 200, "Failed to reject draft.", r.pending, r.approved,
                     <<>>, <<>>, "", <<>>)

\* What opening the modal runs into.
ModalOutcomes == {"no_client", "no_trigger", "opened", "api_error"}

\* open_edit_modal taking the draft out of the pending collection while the
\* modal is open.
OpenEditModalChecksOut(p, a, ref, f, modal) ==
    IF modal \in {"no_client", "no_trigger"}
    THEN Outcome("open_editor", 200, "not opened", p, a, <<>>, <<>>, "", <<>>)
    ELSE LET draft == LoadDraft(p, ref, f)
         IN  Outcome("open_editor", 200,
                     IF modal = "opened" THEN "ok" ELSE "Failed to open editor",
                     IF draft = <<>> THEN p ELSE Remove(p, Basename(ref)), a,
                     <<>>, <<>>, "", <<IF draft = <<>> THEN <<>> ELSE draft[1].text>>)

\* open_edit_modal(payload, draft_filename)
OpenEditModal(p, a, ref, f, modal) ==
    IF modal = "no_client"
    THEN Outcome("open_editor", 200, "Slack client not configured", p, a,
                 <<>>, <<>>, "", <<>>)
    ELSE IF modal = "no_trigger"
    THEN Outcome("open_editor", 200, "No trigger_id available", p, a, <<>>, <<>>, "", <<>>)
    ELSE LET draft == LoadDraft(p, ref, f)
             current_text == IF draft = <<>> THEN <<>> ELSE draft[1].text
         IN  Outcome("open_editor", 200,
                     IF modal = "opened" THEN "ok" ELSE "Failed to open editor",
                     p, a, <<>>, <<>>, "", <<current_text>>)

\* handle_edit_submission saving the edit without approving.
HandleEditSubmissionEditOnly(p, a, ref, new_text, editor, now, f1, f2, pub) ==
    IF ref = <<>> \/ new_text = <<>>
    THEN Outcome("submit", 200, "Text cannot be empty", p, a, <<>>, <<>>, "", <<>>)
    ELSE LET e == EditDraft(p, a, ref, new_text, editor, now, f1)
         IN  Outcome("submit", 200, "clear", e.pending, e.approved, <<>>, <<>>, "", <<>>)

\* handle_edit_submission(payload); f1 and f2 are what the file system does
\* to edit_draft and to approve_draft.
HandleEditSubmission(p, a, ref, new_text, editor, now, f1, f2, pub) ==
    IF ref = <<>> \/ new_text = <<>>
    THEN Outcome("submit", 200, "Text cannot be empty", p, a, <<>>, <<>>, "", <<>>)
    ELSE LET e == EditDraft(p, a, ref, new_text, editor, now, f1)
         IN  IF e.ret
             THEN LET r == ApproveDraft(e.pending, e.approved, ref, editor, now, f2)
                  IN  Outcome("submit", 200, "clear", r.pending, r.approved, r.ret,
                              IF r.ret # <<>> THEN PostedDraft(r.approved, r.ret, pub)
                              ELSE <<>>,
                              "", <<>>)
             ELSE Outcome("submit", 200, "clear", e.pending, e.approved,
                          <<>>, <<>>, "", <<>>)

\* slack_actions handling an action it does not know as an approve.
DispatchApprovesUnknown(p, a, pl, now, f1, f2, pub, modal) ==
    IF pl.ptype = "malformed"
    THEN Outcome("none", 400, "", p, a, <<>>, <<>>, "", <<>>)
    ELSE IF pl.ptype = "view_submission"
    THEN HandleEditSubmission(p, a, pl.value, pl.new_text, pl.user, now, f1, f2, pub)
    ELSE IF pl.ptype = "block_actions" /\ pl.action_id # ""
    THEN IF pl.action_id = "reject_post"
         THEN HandleReject(p, a, pl.value, pl.user, now, f1)
         ELSE IF pl.action_id = "edit_post"
         THEN OpenEditModal(p, a, pl.value, f1, modal)
         ELSE HandleApprove(p, a, pl.value, pl.user, now, f1, pub)
    ELSE Outcome("none", 200, "ok", p, a, <<>>, <<>>, "", <<>>)

\* slack_actions after the signature check, lines 325-412
Dispatch(p, a, pl, now, f1, f2, pub, modal) ==
    IF pl.ptype = "malformed"
    THEN Outcome("none", 400, "", p, a, <<>>, <<>>, "", <<>>)
    ELSE IF pl.ptype = "view_submission"
    THEN HandleEditSubmission(p, a, pl.value, pl.new_text, pl.user, now, f1, f2, pub)
    ELSE IF pl.ptype = "block_actions" /\ pl.action_id # ""
    THEN IF pl.action_id = "approve_post"
         THEN HandleApprove(p, a, pl.value, pl.user, now, f1, pub)
         ELSE IF pl.action_id = "reject_post"
         THEN HandleReject(p, a, pl.value, pl.user, now, f1)
         ELSE IF pl.action_id = "edit_post"
         THEN OpenEditModal(p, a, pl.value, f1, modal)
         ELSE Outcome("unknown", 200, "ok", p, a, <<>>, <<>>, "", <<>>)
    ELSE Outcome("none", 200, "ok", p, a, <<>>, <<>>, "", <<>>)

\* slack_actions(), lines 320-323, then the rest: an exception of the
\* verifier leaves the view as HTTP 500, a refusal is abort(401).
Handle(key, req, p, a, pl, now, f1, f2, pub, modal) ==
    LET v == VerifySlackSignature(key, req, req.now2)
    IN  IF v = "True" THEN Dispatch(p, a, pl, now, f1, f2, pub, modal)
        ELSE Outcome("none", IF v = "False" THEN 401 ELSE 500, "", p, a,
                     <<>>, <<>>, "", <<>>)

\* A history holds at most MaxSteps operations: drafts written by the writer
\* plus requests handled by the receiver.
MaxSteps == 4

\* f"{user_name} ({user_id})"
Users == {"alice (U1)"}

\* The text of an edit submission; <<>> is the empty text.
NewTexts == {<<>>, <<"e1">>}

\* References that name no draft file: the empty string, "..",
\* "../../etc/passwd", "nope.json".
SpecialRefs ==
    {<<>>, <<DotDot>>, <<DotDot, DotDot, <<"etc">>, <<"passwd">>>>, <<<<"nope", ".json">>>>}

\* The references to the files of the collections.
FileRefs(p, a) == {<<n>> : n \in DOMAIN p \cup DOMAIN a}

\* The references events carry: the special ones and the names of the files
\* of both collections.
Refs(p, a) == SpecialRefs \cup FileRefs(p, a)

Payload(ptype, action_id, value, user, new_text) ==
    [ptype |-> ptype, action_id |-> action_id, value |-> value, user |-> user,
     new_text |-> new_text]

\* The payloads of the requests: unparsable, of another type, block_actions
\* without an action (action_id ""), with an unknown action, a button click,
\* an edit submission.
OtherPayloads ==
    {Payload(t, "", <<>>, "", <<>>) : t \in {"malformed", "other", "block_actions"}}
    \cup {Payload("block_actions", "bogus", <<>>, "alice (U1)", <<>>)}

Buttons == {"approve_post", "reject_post", "edit_post"}

ButtonPayloads(action_id, refs, users) ==
    {Payload("block_actions", action_id, r, u, <<>>) : r \in refs, u \in users}

SubmissionPayloads(refs, users, texts) ==
    {Payload("view_submission", "", r, u, t) : r \in refs, u \in users, t \in texts}

\* One payload of each kind about each of the references.
ProbePayloads(refs) ==
    SubmissionPayloads(refs, {"alice (U1)"}, {<<"e1">>})
    \cup UNION {ButtonPayloads(x, refs, {"alice (U1)"}) : x \in Buttons}

\* The signed envelopes of the requests: body <<"b">> stands for the encoded
\* payload; signed by Slack and fresh, signed and stale, signed with another
\* key, unsigned, and with a signature holding a non-ASCII character.
Envelope(ts, sig, now2) == [ts |-> ts, sig |-> sig, body |-> <<"b">>, now2 |-> now2]

FreshEnvelope ==
    Envelope(<<<<"4", "0", "0">>>>,
             <<SlackSigns(SigningSecret, <<"4", "0", "0">>, <<"b">>)>>, 2 * 400)

Envelopes ==
    LET t == <<"4", "0", "0">>
    IN  {FreshEnvelope,
         Envelope(<<t>>, <<SlackSigns(SigningSecret, t, <<"b">>)>>,
                  2 * (400 + ReplayWindow + 1)),
         Envelope(<<t>>, <<SlackSigns(OtherSecret, t, <<"b">>)>>, 2 * 400),
         Envelope(<<t>>, <<>>, 2 * 400),
         Envelope(<<t>>, <<[pre |-> <<"v", "0", "=", NonAscii>>, dig |-> <<>>]>>, 2 * 400)}

\* One request to /slack/actions, handled to completion.
SlackActions(req, pl, f1, f2, pub, modal) ==
    /\ wpc = "idle"
    /\ clock + nEvents < MaxSteps
    /\ \E o \in {Handle(secret, req, pending, approved, pl, clock, f1, f2, pub, modal)} :
           /\ pending' = o.pending
           /\ approved' = o.approved
           /\ pubLog' = IF o.invoked = <<>> THEN pubLog ELSE Append(pubLog, o.invoked[1])
           /\ last' = [kind |-> o.kind,
                       verify |-> VerifySlackSignature(secret, req, req.now2),
                       status |-> o.status, text |-> o.text, ret |-> o.ret,
                       invoked |-> o.invoked, notice |-> o.notice,
                       prefill |-> o.prefill,
                       payload |-> IF VerifySlackSignature(secret, req, req.now2) = "True"
                                   THEN pl ELSE NoPayload,
                       pub |-> IF o.kind \in {"approve", "submit"} /\ o.ret # <<>>
                               THEN pub ELSE "none",
                       clean |-> /\ o.kind = "submit" =>
                                        /\ f1 = "none"
                                        /\ f2 = "none"
                                        /\ pub \in {"posts", "reports_failure", "raises"}
                                 /\ o.kind = "open_editor" => f1 = "none"]
    /\ nEvents' = nEvents + 1
    /\ UNCHANGED writerVars

\* request.json of a request to /slack/events: a body that is no JSON, the
\* JSON null, a url_verification object with and without its challenge key,
\* an object of another type.
EventData == {"malformed", "null", "url_verification", "no_challenge", "other"}

\* slack_events(): status and body of the response
EventsResponse(data) ==
    IF data = "malformed" THEN [status |-> 400, text |-> ""]
    ELSE IF data = "url_verification" THEN [status |-> 200, text |-> "challenge"]
    ELSE IF data = "no_challenge" THEN [status |-> 500, text |-> ""]
    ELSE [status |-> 200, text |-> "ok"]

\* One request to /slack/events, handled to completion.  last.verify is what
\* verify_slack_signature returns for the request; the handler does not
\* call it.
SlackEvents(req, data) ==
    /\ wpc = "idle"
    /\ clock + nEvents < MaxSteps
    /\ last' = [kind |-> "events",
                verify |-> VerifySlackSignature(secret, req, req.now2),
                status |-> EventsResponse(data).status,
                text |-> EventsResponse(data).text, ret |-> <<>>,
                invoked |-> <<>>, notice |-> "", prefill |-> <<>>,
                payload |-> NoPayload, pub |-> "none", clean |-> TRUE]
    /\ nEvents' = nEvents + 1
    /\ UNCHANGED <<storeVars, pubLog, writerVars>>

(***************************************************************************)
(* The pipeline: the writer produces drafts, the dispatcher handles the    *)
(* requests about them.  The writer's only effect on the store is the one  *)
(* file it writes, so requests are taken between its invocations.          *)
(***************************************************************************)

Init ==
    /\ secret = SigningSecret
    /\ PureIdle
    /\ StoreInit
    /\ WriterInit
    /\ DispatchInit

\* What the providers and the file system do to the writer in the pipeline.
PipelineGenOutcomes == {Answers(<<"w1", "w2">>), Raises(<<>>)}

PipelineCriticOutcomes ==
    {Answers(SAFE), Answers(<<"U", "N", "S", "A", "F", "E", ":", " ", "x">>)}

PipelineFsOutcomes == {"ok"}

PipelineNews == [articles |-> << << <<"u">> >> >>, scraped_at |-> <<"s">>]

\* The requests: the envelopes that are refused, about the files; the
\* correctly signed fresh envelope with the payloads that reach no draft
\* file (an unknown action about a file among them); and the correctly signed fresh envelope with each kind of payload
\* about each file, under every outcome of the steps that kind reaches.
DispatcherNext ==
    \/ \E req \in Envelopes \ {FreshEnvelope},
          pl \in ProbePayloads(FileRefs(pending, approved)) :
           SlackActions(req, pl, "none", "none", "posts", "opened")
    \/ \E pl \in OtherPayloads \cup ProbePayloads(SpecialRefs)
                 \cup SubmissionPayloads(FileRefs(pending, approved), {"alice (U1)"}, {<<>>})
                 \cup ButtonPayloads("bogus", FileRefs(pending, approved), {"alice (U1)"}) :
           SlackActions(FreshEnvelope, pl, "none", "none", "posts", "opened")
    \/ \E pl \in ButtonPayloads("approve_post", FileRefs(pending, approved), Users) :
           \/ \E f \in Faults : SlackActions(FreshEnvelope, pl, f, "none", "posts", "opened")
           \/ \E pub \in PubOutcomes :
                  SlackActions(FreshEnvelope, pl, "none", "none", pub, "opened")
    \/ \E pl \in ButtonPayloads("reject_post", FileRefs(pending, approved), Users),
          f \in Faults :
           SlackActions(FreshEnvelope, pl, f, "none", "posts", "opened")
    \/ \E pl \in ButtonPayloads("edit_post", FileRefs(pending, approved), {"alice (U1)"}),
          f \in {"none", "read_fails"}, modal \in ModalOutcomes :
           SlackActions(FreshEnvelope, pl, f, "none", "posts", modal)
    \/ \E pl \in SubmissionPayloads(FileRefs(pending, approved), Users, NewTexts \ {<<>>}) :
           \/ \E f1 \in Faults :
                  SlackActions(FreshEnvelope, pl, f1, "none", "posts", "opened")
           \/ \E f2 \in Faults :
                  SlackActions(FreshEnvelope, pl, "none", f2, "posts", "opened")
           \/ \E pub \in PubOutcomes :
                  SlackActions(FreshEnvelope, pl, "none", "none", pub, "opened")

\* The pipeline follows one draft: the writer is invoked while both
\* collections are empty.
WriterInPipelineNext ==
    \/ /\ clock + nEvents < MaxSteps
       /\ pending = EmptyDir
       /\ approved = EmptyDir
       /\ StartGenerate(PipelineNews, 2)
    \/ \E g \in PipelineGenOutcomes, c \in PipelineCriticOutcomes,
          f \in PipelineFsOutcomes :
           Attempt(g, c, f)
    \/ Finish

\* The requests to /slack/events: signed by Slack, and unsigned.
EventsNext ==
    \E req \in {FreshEnvelope, Envelope(<<>>, <<>>, 2 * 400)}, data \in EventData :
        SlackEvents(req, data)

Next ==
    (WriterInPipelineNext \/ DispatcherNext \/ EventsNext) /\ UNCHANGED <<secret, pureVars>>

Spec == Init /\ [][Next]_vars

(***************************************************************************)
(* The store functions on their own: calls of approve_draft, reject_draft, *)
(* edit_draft and load_draft, with any arguments, and of the two views     *)
(* /drafts and /health, on a store the writer left one draft in.  The      *)
(* clock ticks with every call.                                            *)
(***************************************************************************)

\* Store functions are called while fewer than MaxCalls calls were made.
MaxCalls == 3

Actors == {"alice (U1)", "bob (U2)"}

Reasons == {"", "off-tone"}

EditTexts == {<<"e1">>, <<"e2", "e3">>}

\* The draft file generate_post wrote at time now.
WrittenDraft(now) ==
    LET draft == <<"w1", "w2">>
    IN  [name |-> DraftFilename(now, DraftId(draft)),
         data |-> DraftData(draft, now, PipelineNews, 1, 2)]

StoreAloneInit ==
    /\ secret = NoSecret
    /\ PureIdle
    /\ pending = Put(EmptyDir, WrittenDraft(1).name, <<WrittenDraft(1).data>>)
    /\ approved = EmptyDir
    /\ clock = 2
    /\ wpc = "idle"
    /\ wloc = IdleLoc
    /\ wlast = NoAttempt
    /\ DispatchInit

\* The references of the calls: the special ones, the names of the files of
\* both collections, and those names behind a parent directory.
CallRefs(p, a) ==
    SpecialRefs \cup FileRefs(p, a) \cup {<<DotDot, n>> : n \in DOMAIN p}

Called(op, ref, actor, reason, new_text, f, ok, ret) ==
    [op |-> op, ref |-> ref, actor |-> actor, reason |-> reason,
     new_text |-> new_text, fault |-> f, ok |-> ok, ret |-> ret,
     edits |-> IF op = "edit" /\ ok THEN call.edits + 1 ELSE call.edits]

StoreCallFrame ==
    /\ clock < 2 + MaxCalls
    /\ clock' = clock + 1
    /\ UNCHANGED <<secret, vreq, vres, cin, cout, wpc, wloc, wlast, dispatchVars, th>>

CallApprove(ref, actor, f) ==
    /\ StoreCallFrame
    /\ \E r \in {ApproveDraft(pending, approved, ref, actor, clock, f)} :
           /\ pending' = r.pending
           /\ approved' = r.approved
           /\ call' = Called("approve", ref, actor, "", <<>>, f, r.ret # <<>>, r.ret)

CallReject(ref, actor, reason, f) ==
    /\ StoreCallFrame
    /\ \E r \in {RejectDraft(pending, approved, ref, actor, reason, clock, f)} :
           /\ pending' = r.pending
           /\ approved' = r.approved
           /\ call' = Called("reject", ref, actor, reason, <<>>, f, r.ret, <<>>)

CallEdit(ref, new_text, actor, f) ==
    /\ StoreCallFrame
    /\ \E r \in {EditDraft(pending, approved, ref, new_text, actor, clock, f)} :
           /\ pending' = r.pending
           /\ approved' = r.approved
           /\ call' = Called("edit", ref, actor, "", new_text, f, r.ret, <<>>)

CallLoad(ref, f) ==
    /\ StoreCallFrame
    /\ \E d \in {LoadDraft(pending, ref, f)} :
           call' = Called("load", ref, "", "", <<>>, f, d # <<>>, d)
    /\ UNCHANGED storeVars

\* DRAFTS_PATH.glob("*.json")
Glob(dir) == {n \in DOMAIN dir : n # <<>> /\ n[Len(n)] = ".json"}

\* list_drafts(): one entry per globbed file that parses; the files that do
\* not are skipped.  The entries come in the order of the file names, and
\* carry a preview cut from the text; neither is kept here.
ListDrafts(p) ==
    {[filename |-> n, status |-> p[n][1].status, created_at |-> p[n][1].created_at,
      word_count |-> p[n][1].word_count] : n \in {m \in Glob(p) : p[m] # <<>>}}

\* health()
Health(p, a) ==
    [status |-> "healthy", pending_drafts |-> Cardinality(Glob(p)),
     approved_drafts |-> Cardinality(Glob(a))]

\* GET /drafts
CallListDrafts ==
    /\ StoreCallFrame
    /\ call' = Called("list", <<>>, "", "", <<>>, "none", TRUE, <<ListDrafts(pending)>>)
    /\ UNCHANGED storeVars

\* GET /health
CallHealth ==
    /\ StoreCallFrame
    /\ call' = Called("health", <<>>, "", "", <<>>, "none", TRUE,
                      <<Health(pending, approved)>>)
    /\ UNCHANGED storeVars

\* Every call without a fault, and every fault on the calls about a file.
StoreNext ==
    \/ \E ref \in CallRefs(pending, approved), actor \in Actors :
           CallApprove(ref, actor, "none")
    \/ \E ref \in FileRefs(pending, approved), f \in Faults :
           CallApprove(ref, "alice (U1)", f)
    \/ \E ref \in CallRefs(pending, approved), actor \in Actors, reason \in Reasons :
           CallReject(ref, actor, reason, "none")
    \/ \E ref \in FileRefs(pending, approved), f \in Faults :
           CallReject(ref, "alice (U1)", "off-tone", f)
    \/ \E ref \in CallRefs(pending, approved), actor \in Actors, t \in EditTexts :
           CallEdit(ref, t, actor, "none")
    \/ \E ref \in FileRefs(pending, approved), f \in Faults :
           CallEdit(ref, <<"e1">>, "alice (U1)", f)
    \/ \E ref \in CallRefs(pending, approved), f \in {"none", "read_fails"} :
           CallLoad(ref, f)
    \/ CallListDrafts
    \/ CallHealth

SpecStore == StoreAloneInit /\ [][StoreNext]_vars

(***************************************************************************)
(* Two requests about the draft the writer left, handled by two threads:   *)
(* approve_draft, reject_draft and the posting block of slack_actions,     *)
(* one file-system call at a time.  The store functions take no lock.      *)
(***************************************************************************)

\* The file both requests name.
SharedName == WrittenDraft(1).name

\* f"{user_name} ({user_id})" of the request each thread handles
ThreadActor(t) == IF t = 1 THEN "alice (U1)" ELSE "bob (U2)"

\* The thread moves to pc, the rest of it as given.
ThreadAt(t, pc, draft, ok) ==
    th' = [th EXCEPT ![t] = [op |-> th[t].op, pc |-> pc, draft |-> draft, ok |-> ok]]

\* The store function returns False / None.
ThreadFails(t) == ThreadAt(t, "done", th[t].draft, FALSE)

ThreadFrame == UNCHANGED <<secret, vreq, vres, cin, cout, call, writerVars, nEvents, last>>

\* slack_actions reaches approve_draft or reject_draft.
ThreadStart(t, op) ==
    /\ th[t].pc = "idle"
    /\ th' = [th EXCEPT ![t] = [op |-> op, pc |-> "exists", draft |-> <<>>, ok |-> FALSE]]
    /\ UNCHANGED <<storeVars, pubLog>>
    /\ ThreadFrame

\* if not source.exists(): return
ThreadExists(t) ==
    /\ th[t].pc = "exists"
    /\ IF SharedName \in DOMAIN pending
       THEN ThreadAt(t, "read", <<>>, FALSE)
       ELSE ThreadFails(t)
    /\ UNCHANGED <<storeVars, pubLog>>
    /\ ThreadFrame

\* with open(source) as f: draft = json.load(f), and the stamps
ThreadRead(t) ==
    /\ th[t].pc = "read"
    /\ IF SharedName \notin DOMAIN pending \/ pending[SharedName] = <<>>
       THEN ThreadFails(t)
       ELSE ThreadAt(t, "open",
                     <<IF th[t].op = "approve"
                       THEN StampApproved(pending[SharedName][1], ThreadActor(t), clock)
                       ELSE StampRejected(pending[SharedName][1], ThreadActor(t), "", clock)>>,
                     FALSE)
    /\ UNCHANGED <<storeVars, pubLog>>
    /\ ThreadFrame

\* open(destination, "w"): the file is there and empty
ThreadOpen(t) ==
    /\ th[t].pc = "open"
    /\ IF th[t].op = "approve"
       THEN approved' = Put(approved, SharedName, <<>>) /\ UNCHANGED pending
       ELSE pending' = Put(pending, RejectedName(SharedName), <<>>) /\ UNCHANGED approved
    /\ ThreadAt(t, "dump", th[t].draft, FALSE)
    /\ UNCHANGED pubLog
    /\ ThreadFrame

\* json.dump(draft, f) and the close of the file.  Written over what the
\* other thread wrote through its own handle since this one opened, the
\* file holds this thread's record, or, the records differing in length,
\* this record followed by the tail of the other: a file that does not
\* parse.
ThreadDump(t) ==
    /\ th[t].pc = "dump"
    /\ \E content \in {th[t].draft} \cup
                       (IF th[t].op = "approve"
                        THEN IF approved[SharedName] # <<>> THEN {<<>>} ELSE {}
                        ELSE IF pending[RejectedName(SharedName)] # <<>> THEN {<<>>} ELSE {}) :
           IF th[t].op = "approve"
           THEN approved' = Put(approved, SharedName, content) /\ UNCHANGED pending
           ELSE pending' = Put(pending, RejectedName(SharedName), content)
                /\ UNCHANGED approved
    /\ ThreadAt(t, "unlink", th[t].draft, FALSE)
    /\ UNCHANGED pubLog
    /\ ThreadFrame

\* source.unlink(), and the return of the store function
ThreadUnlink(t) ==
    /\ th[t].pc = "unlink"
    /\ IF SharedName \in DOMAIN pending
       THEN /\ pending' = Remove(pending, SharedName)
            /\ ThreadAt(t, IF th[t].op = "approve" THEN "post" ELSE "done", th[t].draft, TRUE)
       ELSE /\ UNCHANGED pending
            /\ ThreadFails(t)
    /\ UNCHANGED <<approved, pubLog>>
    /\ ThreadFrame

\* slack_actions, lines 372-380: the approved file is read back and given
\* to post_to_all_platforms; a file that does not parse is logged.
ThreadPost(t) ==
    /\ th[t].pc = "post"
    /\ pubLog' = IF SharedName \in DOMAIN approved /\ approved[SharedName] # <<>>
                 THEN Append(pubLog, approved[SharedName][1])
                 ELSE pubLog
    /\ ThreadAt(t, "done", th[t].draft, TRUE)
    /\ UNCHANGED storeVars
    /\ ThreadFrame

\* The first request is an approve, the second an approve or a reject.
ThreadsNext ==
    \/ ThreadStart(1, "approve")
    \/ \E op \in {"approve", "reject"} : ThreadStart(2, op)
    \/ \E t \in Threads :
           \/ ThreadExists(t)
           \/ ThreadRead(t)
           \/ ThreadOpen(t)
           \/ ThreadDump(t)
           \/ ThreadUnlink(t)
           \/ ThreadPost(t)

SpecThreads == StoreAloneInit /\ [][ThreadsNext]_vars


(***************************************************************************)
(* Properties                                                              *)
(***************************************************************************)

\* The critic's answer, letter case and surrounding whitespace ignored,
\* starts with the given verdict word.
AnswerStartsWith(outcome, word) ==
    ~outcome.raise /\ StartsWith(Upper(Strip(outcome.text)), word)

NonEmptyReason(r) == r.wording # "" \/ r.text # <<>>

\* C1: a draft file written by an iteration of generate_post holds the text
\* generated in that iteration, and the critic call of that iteration
\* answered SAFE for it: nothing is written for a candidate that was
\* rejected, got an ambiguous verdict or whose critic call raised.
C1_OnlyAcceptedTextPersisted ==
    wlast.wrote # <<>> =>
        /\ ~wlast.gen.raise
        /\ wlast.criticCalled
        /\ AnswerStartsWith(wlast.critic, SAFE)
        /\ wlast.wrote[1] \in DOMAIN pending
        /\ LET content == pending[wlast.wrote[1]]
           IN  content # <<>> =>
                   /\ content[1].text = wlast.gen.text
                   /\ content[1].attempt = wlast.attempt

\* C1 witness: a draft is written in a later attempt, after a rejection.
C1_Witness ==
    /\ wlast.wrote # <<>>
    /\ wlast.attempt > 1
    /\ wloc.prompt # <<>>
    /\ pending[wlast.wrote[1]] # <<>>

\* C2: when every critic call of an invocation ended in a rejection,
\* generate_post has made exactly 3 generation calls when it returns, it
\* returns None and the pending collection is as it was at the start.
C2_RetryBound ==
    (wpc = "returned" /\ Len(wloc.prompt) = wloc.criticCalls) =>
        /\ wloc.genCalls = 3
        /\ wloc.result = <<>>
        /\ pending = wloc.before

\* C2 witness: three candidates were generated and all three were rejected.
C2_Witness ==
    /\ wpc = "returned"
    /\ wloc.criticCalls = 3
    /\ Len(wloc.prompt) = 3
    /\ wloc.result = <<>>

\* C3: for a critic call that raises, and for an answer that (letter case
\* and surrounding whitespace ignored) starts with neither SAFE nor UNSAFE,
\* critic_pass returns is_safe = False with a non-empty reason.
C3_CriticFailSafe ==
    (cout # <<>> /\ ~AnswerStartsWith(cin, SAFE) /\ ~AnswerStartsWith(cin, UNSAFE)) =>
        /\ cout[1].is_safe = FALSE
        /\ NonEmptyReason(cout[1].reason)

\* C3 witness: the answer "I'm" and a raising call were both turned down.
C3_Witness ==
    /\ cout # <<>>
    /\ ~cout[1].is_safe
    /\ \/ cin = Answers(<<"I", "'", "m">>)
       \/ cin.raise

\* A Draft is identified by what the writer stamped on it.
DraftKey(d) == <<d.created_at, d.draft_id>>

\* The artifacts of both collections that hold a readable Draft.
Artifacts(p, a) ==
    {<<"pending", n, p[n][1]>> : n \in {m \in DOMAIN p : p[m] # <<>>}}
    \cup {<<"approved", n, a[n][1]>> : n \in {m \in DOMAIN a : a[m] # <<>>}}

\* Collection, status and text of the artifacts of the Draft k.
Standing(p, a, k) ==
    {<<x[1], x[3].status, x[3].text>> : x \in {y \in Artifacts(p, a) : DraftKey(y[3]) = k}}

\* The Draft k is approved or rejected (and nowhere still pending_approval).
IsTerminal(p, a, k) ==
    /\ Standing(p, a, k) # {}
    /\ \A x \in Standing(p, a, k) : x[2] \in {"approved", "rejected"}

\* C4: once a Draft is approved or rejected, no later event changes its
\* status, its text or its collection, whatever reference the event carries.
C4_TerminalStatusIsFinal ==
    [][\A k \in {DraftKey(x[3]) : x \in Artifacts(pending, approved)} :
           IsTerminal(pending, approved, k) =>
               Standing(pending', approved', k) = Standing(pending, approved, k)]_vars

\* C5: a step that invokes post_to_all_platforms is an approve click or an
\* edit submission with a verified signature whose approve_draft returned the
\* approved path, and the draft handed over is the content of that file of
\* the approved collection, with status approved.
C5_PublishOnlyAfterApprove ==
    [][pubLog' # pubLog =>
           /\ last'.verify = "True"
           /\ last'.kind \in {"approve", "submit"}
           /\ last'.ret # <<>>
           /\ last'.ret[1] \in DOMAIN approved'
           /\ pubLog' = Append(pubLog, approved'[last'.ret[1]][1])
           /\ approved'[last'.ret[1]][1].status = "approved"
           /\ last'.ret[1] \notin DOMAIN pending']_vars

\* C5 witness: an edit submission was approved and its edited text handed
\* to post_to_all_platforms.
C5_Witness ==
    /\ last.kind = "submit"
    /\ last.invoked # <<>>
    /\ last.invoked[1].text = <<"e1">>
    /\ pubLog # <<>>

\* C6: no Draft is handed to post_to_all_platforms twice.
C6_PublishedAtMostOnce ==
    \A i, j \in 1..Len(pubLog) :
        DraftKey(pubLog[i]) = DraftKey(pubLog[j]) => i = j

\* C7: a request to /slack/actions whose signature does not verify is
\* answered with 401, and leaves both collections and the publications as
\* they were.
C7_UnverifiedIs401 ==
    [][(nEvents' # nEvents /\ last'.kind # "events" /\ last'.verify # "True") =>
           /\ last'.status = 401
           /\ pending' = pending
           /\ approved' = approved
           /\ pubLog' = pubLog]_vars

\* The request carries the signature Slack computes for its own timestamp
\* header and body with the configured secret.
CorrectlySigned ==
    /\ secret # NoSecret
    /\ vreq.ts # <<>>
    /\ vreq.sig = <<SlackSigns(secret, vreq.ts[1], vreq.body)>>

\* C8: with a secret configured, a request correctly signed for the header
\* timestamp T is accepted exactly when |now - T| <= 300 seconds.
C8_Freshness ==
    (vres # "pending" /\ CorrectlySigned /\ IntParses(vreq.ts[1])) =>
        (vres = "True" <=> Abs(vreq.now2 - 2 * IntValue(vreq.ts[1])) <= 2 * 300)

\* C8 witness: accepted exactly 300 s after T.
C8_Witness ==
    /\ CorrectlySigned
    /\ IntParses(vreq.ts[1])
    /\ vreq.now2 - 2 * IntValue(vreq.ts[1]) = 2 * 300
    /\ vres = "True"

\* C9: with a secret configured, an accepted request carries
\* "v0=" + HMAC-SHA256(secret, "v0:" + timestamp + ":" + body) for its own
\* timestamp and body; a signature Slack computed for timestamp t and body b
\* is accepted with no other timestamp and no other body.
C9_SignatureIntegrity ==
    (vres = "True" /\ secret # NoSecret) =>
        /\ vreq.ts # <<>>
        /\ vreq.sig = <<SlackSigns(secret, vreq.ts[1], vreq.body)>>
        /\ \A t \in SlackTimestamps, b \in Bodies :
               vreq.sig = <<SlackSigns(secret, t, b)>> => (vreq.ts[1] = t /\ vreq.body = b)

\* C9 witness: a signed request with a non-empty body is accepted.
C9_Witness ==
    /\ vres = "True"
    /\ secret # NoSecret
    /\ vreq.body = <<"a", ":", "b">>

\* C10: verify_slack_signature returns a boolean for every request; it
\* raises nothing.
C10_VerifierNeverRaises == vres \in {"pending", "True", "False"}

\* C11: without a signing secret every request is accepted, whatever its
\* headers; with a secret, an accepted request carries both headers, a
\* timestamp int() parses within 300 s of now, and the HMAC of its own
\* timestamp and body under that secret.
C11_BypassIffNoSecret ==
    vres # "pending" =>
        /\ secret = NoSecret => vres = "True"
        /\ (secret # NoSecret /\ vres = "True") =>
               /\ vreq.ts # <<>> /\ vreq.ts[1] # <<>>
               /\ vreq.sig # <<>> /\ vreq.sig[1] # EmptySig
               /\ IntParses(vreq.ts[1])
               /\ Abs(vreq.now2 - 2 * IntValue(vreq.ts[1])) <= 2 * ReplayWindow
               /\ vreq.sig[1] = SlackSigns(secret, vreq.ts[1], vreq.body)

\* C11 witness: no secret, a request without headers, accepted.
C11_Witness ==
    /\ secret = NoSecret
    /\ vreq.ts = <<>>
    /\ vreq.sig = <<>>
    /\ vres = "True"

\* C12: a request that /slack/actions or /slack/events answers with
\* success is one verify_slack_signature accepts.
C12_EndpointsVerifyFirst == last.status = 200 => last.verify = "True"

\* C13: after approve_draft(name, actor) returned a path, no file with the
\* basename of name is in the pending collection, and the file with that
\* basename in the approved collection holds the draft with status
\* approved, approved_by = actor and approved_at set to the time of the call.
C13_ApproveMoves ==
    (call.op = "approve" /\ call.ok) =>
        LET n == call.ref[Len(call.ref)]
        IN  /\ call.ret = <<n>>
            /\ n \notin DOMAIN pending
            /\ n \in DOMAIN approved
            /\ approved[n] # <<>>
            /\ approved[n][1].status = "approved"
            /\ approved[n][1].approved_by = <<call.actor>>
            /\ approved[n][1].approved_at = <<clock - 1>>

\* C13 witness: bob approved the written draft.
C13_Witness ==
    /\ call.op = "approve"
    /\ call.ok
    /\ call.actor = "bob (U2)"
    /\ call.ref = <<WrittenDraft(1).name>>

\* C14: a call of approve_draft that returns None leaves the pending
\* collection as it was, and a call that removes a file from the pending
\* collection has written the complete approved copy.
C14_FailedApproveKeepsPending ==
    [][(clock' # clock /\ call'.op = "approve") =>
           /\ ~call'.ok => (pending' = pending /\ call'.ret = <<>>)
           /\ pending' # pending =>
                  LET n == call'.ref[Len(call'.ref)]
                  IN  /\ pending' = Remove(pending, n)
                      /\ n \in DOMAIN approved'
                      /\ approved'[n] =
                             <<StampApproved(pending[n][1], call'.actor, clock)>>]_vars

\* C14 witness: the write of the approved copy failed part-way, and the
\* pending file is still there.
C14_Witness ==
    /\ call.op = "approve"
    /\ call.fault = "dump_fails"
    /\ ~call.ok
    /\ call.ref[1] \in DOMAIN pending
    /\ pending[call.ref[1]] # <<>>

\* C15: after every call of a store function, failed or not, the draft the
\* writer created is held by exactly one file of the two collections.
C15_ExactlyOneArtifact ==
    Cardinality({y \in Artifacts(pending, approved) :
                    DraftKey(y[3]) = DraftKey(WrittenDraft(1).data)}) = 1

\* C16: after reject_draft(name, actor, reason) returned True, the file
\* with the basename of name is gone from the pending collection, and the
\* file REJECTED_<basename> of the pending collection holds the record as
\* it was, with status rejected, rejected_by = actor, rejected_at set to the
\* time of the call and rejection_reason = reason; the approved collection
\* is as it was.
C16_RejectArchives ==
    [][(clock' # clock /\ call'.op = "reject" /\ call'.ok) =>
           LET n == call'.ref[Len(call'.ref)]
               marked == <<"REJECTED_">> \o n
           IN  /\ n \in DOMAIN pending
               /\ n \notin DOMAIN pending'
               /\ marked \in DOMAIN pending'
               /\ pending'[marked] =
                      <<[pending[n][1] EXCEPT !.status = "rejected",
                                             !.rejected_at = <<clock>>,
                                             !.rejected_by = <<call'.actor>>,
                                             !.rejection_reason = <<call'.reason>>]>>
               /\ DOMAIN pending' = (DOMAIN pending \ {n}) \cup {marked}
               /\ approved' = approved]_vars

\* C16 witness: bob rejected the written draft as off-tone.
C16_Witness ==
    /\ call.op = "reject"
    /\ call.ok
    /\ call.actor = "bob (U2)"
    /\ call.reason = "off-tone"
    /\ call.ref = <<WrittenDraft(1).name>>

\* C17: the listing of /drafts holds no rejected record, and pending_drafts
\* of /health counts the files of the pending collection that hold no
\* rejected record.
C17_RejectedNotInPendingViews ==
    /\ call.op = "list" => \A e \in call.ret[1] : e.status # "rejected"
    /\ call.op = "health" =>
           call.ret[1].pending_drafts =
               Cardinality({n \in DOMAIN pending :
                               pending[n] = <<>> \/ pending[n][1].status # "rejected"})

\* C18: after every call of edit_draft that returned True, the first and
\* every later one, the draft's text is the text of that call and its
\* original_text is the text the writer gave it.
C18_OriginalTextSetOnce ==
    (call.op = "edit" /\ call.ok) =>
        LET n == call.ref[Len(call.ref)]
        IN  /\ n \in DOMAIN pending
            /\ pending[n] # <<>>
            /\ pending[n][1].text = call.new_text
            /\ pending[n][1].original_text = <<WrittenDraft(1).data.text>>

\* C18 witness: a second edit, with another text than the first.
C18_Witness ==
    /\ call.op = "edit"
    /\ call.ok
    /\ call.edits >= 2
    /\ call.new_text = <<"e2", "e3">>
    /\ pending[call.ref[Len(call.ref)]][1].original_text = <<<<"w1", "w2">>>>

\* The files of a directory that a step created, removed or rewrote.
Changed(before, after) ==
    {m \in DOMAIN before \cup DOMAIN after :
        \/ (m \in DOMAIN before) # (m \in DOMAIN after)
        \/ m \in DOMAIN before /\ m \in DOMAIN after /\ before[m] # after[m]}

\* C19: load_draft, approve_draft, reject_draft and edit_draft act on the
\* last segment n of the reference they are given: the only files they
\* create, remove or rewrite are n and REJECTED_n of the pending collection
\* and n of the approved collection, n then being a file name (not "" and
\* not ".."); a readable pending file n is reached through any reference
\* ending in n; and a reference whose last segment names no pending file,
\* such as ../../etc/passwd, fails and changes nothing.
C19_ReferencesStayInside ==
    [][(clock' # clock /\ call'.op \in {"load", "approve", "reject", "edit"}) =>
           LET r == call'.ref
               n == IF r = <<>> THEN <<>> ELSE r[Len(r)]
           IN  /\ Changed(pending, pending') \subseteq {n, <<"REJECTED_">> \o n}
               /\ Changed(approved, approved') \subseteq {n}
               /\ <<pending', approved'>> # <<pending, approved>> =>
                      (n # <<>> /\ n # DotDot)
               /\ n \notin DOMAIN pending =>
                      (~call'.ok /\ pending' = pending /\ approved' = approved)
               /\ (n \in DOMAIN pending /\ pending[n] # <<>> /\ call'.fault = "none")
                      => call'.ok
               /\ (call'.op = "load" /\ call'.ok) => call'.ret = pending[n]]_vars

\* C19 witness: approve_draft("../../etc/passwd") found nothing.
C19_Witness ==
    /\ call.op = "approve"
    /\ call.ref = <<DotDot, DotDot, <<"etc">>, <<"passwd">>>>
    /\ ~call.ok
    /\ call.ret = <<>>

\* An edit submission with a verified signature and a non-empty text for a
\* readable file of the pending collection with status pending_approval
\* was handled, and no step of it met a fault.
CleanEditSubmission ==
    /\ nEvents' # nEvents
    /\ last'.kind = "submit"
    /\ last'.verify = "True"
    /\ last'.clean
    /\ last'.payload.new_text # <<>>
    /\ last'.payload.value # <<>>
    /\ last'.payload.value[Len(last'.payload.value)] \in DOMAIN pending
    /\ pending[last'.payload.value[Len(last'.payload.value)]] # <<>>
    /\ pending[last'.payload.value[Len(last'.payload.value)]][1].status = "pending_approval"

\* What the submission leads to, but for original_text: the file is gone
\* from the pending collection, the approved collection holds it with the
\* new text and status approved, and that record was handed to
\* post_to_all_platforms.
EditSubmissionApproved ==
    LET n == last'.payload.value[Len(last'.payload.value)]
    IN  /\ n \notin DOMAIN pending'
        /\ n \in DOMAIN approved'
        /\ approved'[n] # <<>>
        /\ approved'[n][1].text = last'.payload.new_text
        /\ approved'[n][1].status = "approved"
        /\ pubLog' = Append(pubLog, approved'[n][1])

C21_PublicationFailureKeepsApproval ==
    [][(/\ nEvents' # nEvents
        /\ last'.kind \in {"approve", "submit"}
        /\ last'.ret # <<>>
        /\ last'.pub # "posts")
       => /\ last'.ret[1] \in DOMAIN approved'
          /\ last'.ret[1] \notin DOMAIN pending'
          /\ approved'[last'.ret[1]] # <<>>
          /\ approved'[last'.ret[1]][1].status = "approved"
          /\ last'.status = 200
          /\ last'.text = IF last'.kind = "approve" THEN "Draft approved and posted!"
                          ELSE "clear"]_vars

\* C21 witness: an approve click whose post_to_all_platforms raised left
\* the draft approved.
C21_Witness ==
    /\ last.kind = "approve"
    /\ last.pub = "raises"
    /\ last.ret # <<>>
    /\ last.ret[1] \in DOMAIN approved
    /\ approved[last.ret[1]][1].status = "approved"

\* C22: after an approve whose draft was not posted, the notice put on the
\* Slack message does not say posted.
C22_NoticeReflectsPublication ==
    (last.kind = "approve" /\ last.ret # <<>> /\ last.pub # "posts")
        => last.notice # "Approved & posted"

\* The answers that tell the actor the transition failed.
FailureWordings == {"Failed to approve draft.", "Failed to reject draft.", "Text cannot be empty"}

\* C23: a verified approve, reject or edit submission whose reference names
\* no file of the pending collection, or one that does not parse, is
\* answered 200 with failure wording, changes neither collection and posts
\* nothing.
C23_MissingDraftReported ==
    [][(/\ nEvents' # nEvents
        /\ last'.verify = "True"
        /\ last'.kind \in {"approve", "reject", "submit"}
        /\ \/ Basename(last'.payload.value) \notin DOMAIN pending
           \/ pending[Basename(last'.payload.value)] = <<>>)
       => /\ last'.status = 200
          /\ last'.text \in FailureWordings
          /\ pending' = pending
          /\ approved' = approved
          /\ pubLog' = pubLog]_vars

\* C24 as stated: reject_draft called for a file of the pending collection
\* returns True.
C24_RejectOfPresentSucceeds ==
    [][(clock' # clock /\ call'.op = "reject" /\ Basename(call'.ref) \in DOMAIN pending)
           => call'.ok]_vars

\* C24 amended: reject_draft returns True exactly when the referenced file
\* is in the pending collection, parses, and no file-system step of the
\* call raises; it returns False only for a missing or unparsable file or
\* a step that raised.
C24_RejectSucceedsUnlessMissingOrFault ==
    [][(clock' # clock /\ call'.op = "reject")
           => (call'.ok <=> /\ Basename(call'.ref) \in DOMAIN pending
                            /\ pending[Basename(call'.ref)] # <<>>
                            /\ call'.fault = "none")]_vars

\* C24 witness: alice rejected a file of the pending collection, giving no
\* reason, and the marked file is there.
C24_Witness ==
    /\ call.op = "reject"
    /\ call.ok
    /\ call.fault = "none"
    /\ call.actor = "alice (U1)"
    /\ call.reason = ""
    /\ RejectedName(Basename(call.ref)) \in DOMAIN pending

\* C25: a verified click on the edit button changes neither collection and
\* posts nothing, whatever opening the modal runs into; and when
\* views_open was called for a file of the pending collection that parses
\* and was read without a fault, its initial_value is that draft's text.
C25_OpenEditorReadsOnly ==
    [][(/\ nEvents' # nEvents
        /\ last'.verify = "True"
        /\ last'.payload.ptype = "block_actions"
        /\ last'.payload.action_id = "edit_post")
       => /\ pending' = pending
          /\ approved' = approved
          /\ pubLog' = pubLog
          /\ last'.status = 200
          /\ (/\ last'.prefill # <<>>
              /\ last'.clean
              /\ Basename(last'.payload.value) \in DOMAIN pending
              /\ pending[Basename(last'.payload.value)] # <<>>)
             => last'.prefill = <<pending[Basename(last'.payload.value)][1].text>>]_vars

\* C25 witness: the modal was opened on the written draft, pre-filled with
\* the writer's text, and the draft is still pending.
C25_Witness ==
    /\ last.kind = "open_editor"
    /\ last.text = "ok"
    /\ last.clean
    /\ last.prefill = << <<"w1", "w2">> >>
    /\ Basename(last.payload.value) \in DOMAIN pending

\* C26: a verified event whose payload type is unknown, or a block_actions
\* event with no action or with an action_id that is none of the three
\* buttons, is answered 200 {"ok": true}, changes neither collection and
\* posts nothing.
C26_UnknownActionAcknowledged ==
    [][(/\ nEvents' # nEvents
        /\ last'.verify = "True"
        /\ \/ last'.payload.ptype = "other"
           \/ /\ last'.payload.ptype = "block_actions"
              /\ last'.payload.action_id \notin Buttons)
       => /\ last'.status = 200
          /\ last'.text = "ok"
          /\ pending' = pending
          /\ approved' = approved
          /\ pubLog' = pubLog]_vars

\* C26 witness: an unknown action naming a pending file was acknowledged.
C26_Witness ==
    /\ last.kind = "unknown"
    /\ last.payload.action_id = "bogus"
    /\ last.payload.value # <<>>
    /\ Basename(last.payload.value) \in DOMAIN pending
    /\ last.status = 200

\* C27: when the two handlers have returned, the Draft is held by exactly
\* one artifact, at most one of the two store calls reported success, and
\* post_to_all_platforms was called at most once.
C27_InterleavedHandlersKeepInvariants ==
    (\A t \in Threads : th[t].pc = "done")
        => /\ Cardinality({y \in Artifacts(pending, approved) :
                              DraftKey(y[3]) = DraftKey(WrittenDraft(1).data)}) = 1
           /\ Cardinality({t \in Threads : th[t].ok}) <= 1
           /\ Len(pubLog) <= 1

\* C28: an iteration of generate_post whose critic call accepted the
\* candidate ends the invocation: the draft file is written with the
\* candidate's text, status pending_approval, the iteration's number as
\* attempt and critic_result SAFE, its path is returned, and no further
\* iteration (generation or critic call) follows.
C28_ReturnsOnAccept ==
    [][(wpc = "loop" /\ wlast'.attempt = wloc.attempt /\ wlast'.verdict.is_safe)
       => /\ wpc' = "returned"
          /\ wloc'.result # <<>>
          /\ wloc'.result[1] \in DOMAIN pending'
          /\ pending'[wloc'.result[1]] # <<>>
          /\ pending'[wloc'.result[1]][1].text = wlast'.gen.text
          /\ pending'[wloc'.result[1]][1].status = "pending_approval"
          /\ pending'[wloc'.result[1]][1].attempt = wloc.attempt
          /\ pending'[wloc'.result[1]][1].critic_result = "SAFE"
          /\ wloc'.genCalls = wloc.genCalls + 1
          /\ wloc'.criticCalls = wloc.criticCalls + 1]_vars

\* C29: during and after an invocation of generate_post the pending
\* collection holds at most one file that was not there when it started;
\* when it has returned a path it holds exactly one, when it has returned
\* None it holds none.
C29_OneFilePerInvocation ==
    wpc \in {"loop", "returned"} =>
        /\ Cardinality(DOMAIN pending \ DOMAIN wloc.before) <= 1
        /\ wpc = "returned" =>
               Cardinality(DOMAIN pending \ DOMAIN wloc.before)
                   = IF wloc.result # <<>> THEN 1 ELSE 0

\* C30: critic_pass returns is_safe = True exactly for a critic response
\* that, letter case and surrounding whitespace ignored, starts with SAFE;
\* "SAFE  \n" and "safe" are accepted.
C30_AcceptsIffStartsWithSafe ==
    cout # <<>> =>
        /\ cout[1].is_safe <=> AnswerStartsWith(cin, SAFE)
        /\ cin \in {Answers(<<"S", "A", "F", "E", " ", " ", "\n">>),
                     Answers(<<"s", "a", "f", "e">>)} => cout[1].is_safe

\* C30 witness: the response "safe" was accepted.
C30_Witness ==
    /\ cout # <<>>
    /\ cout[1].is_safe
    /\ cin = Answers(<<"s", "a", "f", "e">>)

\* C31: when the news snapshot holds no article record (no "articles" key,
\* or an empty list), the critic accepts the first candidate and the file
\* system lets the draft file be written, generate_post writes the draft
\* with an empty news_source and returns its path.
C31_NoSourceRecordTolerated ==
    [][(/\ wpc = "loop"
        /\ wloc.attempt = 1
        /\ wloc.news.articles \in {<<>>, << <<>> >>}
        /\ wlast'.attempt = 1
        /\ wlast'.verdict.is_safe
        /\ wlast'.fs = "ok")
       => /\ wpc' = "returned"
          /\ wloc'.result # <<>>
          /\ wloc'.result[1] \in DOMAIN pending'
          /\ pending'[wloc'.result[1]] # <<>>
          /\ pending'[wloc'.result[1]][1].news_source = <<>>]_vars

\* The fields a Draft gets at creation and no operation stamps.
CreationFields(d) ==
    <<d.news_source, d.news_scraped_at, d.model, d.rag_examples_used, d.draft_id,
      d.created_at, d.attempt, d.critic_result>>

\* C32: after every call of approve_draft, reject_draft and edit_draft
\* every artifact carries news_source, news_scraped_at, model,
\* rag_examples_used, draft_id, created_at, attempt and critic_result as
\* the writer set them, and approve_draft and reject_draft leave no
\* artifact with a text that no artifact had before the call.
C32_UnstampedFieldsPreserved ==
    [][(clock' # clock /\ call'.op \in {"approve", "reject", "edit"})
       => /\ \A y \in Artifacts(pending', approved') :
                 CreationFields(y[3]) = CreationFields(WrittenDraft(1).data)
          /\ call'.op \in {"approve", "reject"} =>
                 {y[3].text : y \in Artifacts(pending', approved')}
                     \subseteq {x[3].text : x \in Artifacts(pending, approved)}]_vars

\* C32 witness: the draft was edited, then rejected, and the marked file
\* was approved; it still names its news source.
C32_Witness ==
    /\ call.op = "approve"
    /\ call.ok
    /\ approved[call.ret[1]][1].edited_at # <<>>
    /\ approved[call.ret[1]][1].rejected_at # <<>>
    /\ approved[call.ret[1]][1].news_source = <<"u">>

\* C33: every readable artifact carries approved_at and approved_by exactly
\* when its status is approved, rejected_at and rejected_by exactly when
\* its status is rejected, edited_at and edited_by exactly when it has an
\* original_text; and every readable artifact of the approved collection
\* has status approved.
C33_StampsMatchStatus ==
    \A y \in Artifacts(pending, approved) :
        /\ (y[3].approved_at # <<>>) <=> (y[3].status = "approved")
        /\ (y[3].approved_by # <<>>) <=> (y[3].status = "approved")
        /\ (y[3].rejected_at # <<>>) <=> (y[3].status = "rejected")
        /\ (y[3].rejected_by # <<>>) <=> (y[3].status = "rejected")
        /\ (y[3].edited_at # <<>>) <=> (y[3].original_text # <<>>)
        /\ (y[3].edited_by # <<>>) <=> (y[3].original_text # <<>>)
        /\ y[1] = "approved" => y[3].status = "approved"

\* C34: in an invocation of generate_post at most 3 generation calls and at
\* most 3 critic calls are made, one generation call per attempt, a critic
\* call only in an attempt whose generation call returned, and None is
\* returned only after the third attempt; the invocation is in its loop or
\* has returned, whatever the provider calls raised or answered.
C34_ErrorsConsumeOneAttempt ==
    /\ wpc \in {"idle", "loop", "returned"}
    /\ wloc.genCalls <= 3
    /\ wloc.criticCalls <= 3
    /\ wloc.criticCalls <= wloc.genCalls
    /\ wlast.criticCalled => ~wlast.gen.raise
    /\ wpc = "loop" => wloc.genCalls = wloc.attempt - 1
    /\ (wpc = "returned" /\ wloc.result = <<>>) => wloc.genCalls = 3

\* C34 witness: generate_post returned None after a generation call that
\* raised, a rejection or critic error, and a last critic call that raised.
C34_Witness ==
    /\ wpc = "returned"
    /\ wloc.result = <<>>
    /\ wloc.genCalls = 3
    /\ wloc.criticCalls = 2
    /\ wlast.criticCalled
    /\ wlast.critic.raise

\* C35: an iteration of generate_post whose critic call turned the
\* candidate down appends that verdict's reason to the prompt; an
\* iteration whose generation call raised, or whose candidate was
\* accepted, leaves the prompt as it was.  So the prompt of attempt k is
\* the initial instruction followed by the reasons of the rejections
\* before it, in order.
C35_PromptGathersRejections ==
    [][wpc = "loop" =>
           wloc'.prompt = IF wlast'.criticCalled /\ ~wlast'.verdict.is_safe
                          THEN wloc.prompt \o <<CriticPass(wlast'.critic).reason>>
                          ELSE wloc.prompt]_vars

\* C35 witness: the third attempt starts with the feedback of two
\* rejections, the first the reason of an UNSAFE answer.
C35_Witness ==
    /\ wpc = "loop"
    /\ wloc.attempt = 3
    /\ Len(wloc.prompt) = 2
    /\ wloc.prompt[1] = Reason("", <<"x">>)

\* An edit submission with a verified signature and a non-empty text for a
\* readable file of the pending collection was handled.
EditSubmissionHandled ==
    /\ nEvents' # nEvents
    /\ last'.kind = "submit"
    /\ last'.verify = "True"
    /\ last'.payload.new_text # <<>>
    /\ last'.payload.value # <<>>
    /\ last'.payload.value[Len(last'.payload.value)] \in DOMAIN pending
    /\ pending[last'.payload.value[Len(last'.payload.value)]] # <<>>

\* C36: after such a submission the draft either stands approved with the
\* submitted text and is gone from the pending collection, or it is in
\* the pending collection exactly as before and the answer is one of the
\* failure wordings; it is never pending with the submitted text.
C36_EditSubmissionAllOrNothing ==
    [][EditSubmissionHandled =>
           LET n == last'.payload.value[Len(last'.payload.value)]
           IN  \/ /\ n \notin DOMAIN pending'
                  /\ n \in DOMAIN approved'
                  /\ approved'[n] # <<>>
                  /\ approved'[n][1].text = last'.payload.new_text
                  /\ approved'[n][1].status = "approved"
               \/ /\ n \in DOMAIN pending'
                  /\ pending'[n] = pending[n]
                  /\ last'.text \in FailureWordings]_vars

\* C37: when generate_post has written a draft, the answer of the critic
\* for its text, stripped and upper-cased, is the word SAFE and nothing
\* more.
C37_PersistedDraftHasSafeVerdict ==
    wlast.wrote # <<>> =>
        /\ wlast.criticCalled
        /\ ~wlast.critic.raise
        /\ Upper(Strip(wlast.critic.text)) = SAFE

\* C38: a draft that already carries an edit (original_text is present)
\* is not edited again: no edit submission for it gets as far as a
\* successful approve_draft, which handle_edit_submission calls only after
\* edit_draft has rewritten the file once more.
C38_AtMostOneEditPerDraft ==
    [][EditSubmissionHandled =>
           LET n == last'.payload.value[Len(last'.payload.value)]
           IN  pending[n][1].original_text # <<>> => last'.ret = <<>>]_vars

====
